---------------------------- MODULE Spec2Model ----------------------------
(***************************************************************************)
(* PromiseX simulator (src/src/App.tsx): the React component's state, its  *)
(* event handlers and the derivation pipeline computed from the state.     *)
(*                                                                         *)
(* JavaScript values are modelled as tagged records.  A number is          *)
(*   [k |-> "fin", v |-> n]   the finite double n / SCALE (fixed point,    *)
(*                            every operation rounds to the nearest unit), *)
(*   [k |-> "inf", v |-> s]   +Infinity (s = 1) or -Infinity (s = -1),     *)
(*   [k |-> "nan", v |-> 0]   NaN.                                         *)
(* Other JSON values are "undef" (a missing property), "null", "str",      *)
(* "bool", "obj" and "arr".                                                *)
(***************************************************************************)
EXTENDS Integers, Sequences, FiniteSets, TLC

\* Fixed-point resolution of the modelled doubles: one unit is 1/SCALE.
SCALE == 10 ^ 4

----------------------------------------------------------------------------
(* JavaScript values *)

Fin(n) == [k |-> "fin", v |-> n]
Inf(s) == [k |-> "inf", v |-> s]
NaN == [k |-> "nan", v |-> 0]
Undef == [k |-> "undef"]
JNull == [k |-> "null"]
JStr(s) == [k |-> "str", s |-> s]
JBool(b) == [k |-> "bool", b |-> b]
JObj(f) == [k |-> "obj", f |-> f]
JArr(a) == [k |-> "arr", a |-> a]

\* The integer n and the decimal n/d as doubles.
Num(n) == Fin(n * SCALE)
Dec(n, d) == Fin((n * SCALE) \div d)

\* typeof x === "number"
IsNumber(x) == x.k \in {"fin", "inf", "nan"}
IsFinite(x) == x.k = "fin"
\* x == null (null or undefined), the test behind the ?? operator
IsNullish(x) == x.k \in {"undef", "null"}
\* !!x
Truthy(x) ==
    CASE x.k = "fin" -> x.v # 0
      [] x.k = "inf" -> TRUE
      [] x.k = "nan" -> FALSE
      [] x.k = "undef" -> FALSE
      [] x.k = "null" -> FALSE
      [] x.k = "str" -> x.s # ""
      [] x.k = "bool" -> x.b
      [] OTHER -> TRUE
\* ToNumber, applied by the arithmetic operators to a non-number operand.
ToNumber(x) ==
    CASE IsNumber(x) -> x
      [] x.k = "null" -> Fin(0)
      [] x.k = "bool" -> IF x.b THEN Num(1) ELSE Fin(0)
      [] x.k = "str" /\ x.s = "" -> Fin(0)
      [] OTHER -> NaN

----------------------------------------------------------------------------
(* IEEE-754 arithmetic on the modelled doubles *)

Abs(n) == IF n < 0 THEN -n ELSE n
Sgn(n) == IF n < 0 THEN -1 ELSE IF n > 0 THEN 1 ELSE 0

\* round(x * y / SCALE) for naturals, split so no intermediate overflows.
MulNat(x, y) ==
    LET xh == x \div SCALE
        xl == x % SCALE
        yh == y \div SCALE
        yl == y % SCALE
    IN  xh * yh * SCALE + xh * yl + xl * yh + (xl * yl + SCALE \div 2) \div SCALE

\* Long division: acc holds the quotient digits produced so far, r the
\* remainder (r < y), m the weight of the digits still to produce.
RECURSIVE DivLoop(_, _, _, _)
DivLoop(r, y, m, acc) ==
    IF m = 1
    THEN acc + (IF 2 * r >= y THEN 1 ELSE 0)
    ELSE DivLoop((r * 10) % y, y, m \div 10, acc * 10 + (r * 10) \div y)

\* round(x * SCALE / y) for naturals, y > 0.
DivNat(x, y) == DivLoop(x % y, y, SCALE, x \div y)

Neg(a) ==
    CASE a.k = "fin" -> Fin(-a.v)
      [] a.k = "inf" -> Inf(-a.v)
      [] OTHER -> NaN

AddNum(a, b) ==
    CASE a.k = "nan" \/ b.k = "nan" -> NaN
      [] a.k = "inf" /\ b.k = "inf" -> IF a.v = b.v THEN a ELSE NaN
      [] a.k = "inf" -> a
      [] b.k = "inf" -> b
      [] OTHER -> Fin(a.v + b.v)

MulNum(a, b) ==
    CASE a.k = "nan" \/ b.k = "nan" -> NaN
      [] a.k = "inf" \/ b.k = "inf" ->
            IF Sgn(a.v) * Sgn(b.v) = 0 THEN NaN ELSE Inf(Sgn(a.v) * Sgn(b.v))
      [] OTHER -> Fin(Sgn(a.v) * Sgn(b.v) * MulNat(Abs(a.v), Abs(b.v)))

DivNum(a, b) ==
    CASE a.k = "nan" \/ b.k = "nan" -> NaN
      [] a.k = "inf" /\ b.k = "inf" -> NaN
      [] a.k = "inf" -> Inf(IF b.v < 0 THEN -a.v ELSE a.v)
      [] b.k = "inf" -> Fin(0)
      [] b.v = 0 -> IF a.v = 0 THEN NaN ELSE Inf(Sgn(a.v))
      [] OTHER -> Fin(Sgn(a.v) * Sgn(b.v) * DivNat(Abs(a.v), Abs(b.v)))

\* The operators +, -, *, / of the source: the operands are evaluated, then
\* converted unless both are finite numbers already.
Add(a, b) ==
    IF a.k = "fin" /\ b.k = "fin"
    THEN Fin(a.v + b.v)
    ELSE AddNum(ToNumber(a), ToNumber(b))
Sub(a, b) ==
    IF a.k = "fin" /\ b.k = "fin"
    THEN Fin(a.v - b.v)
    ELSE AddNum(ToNumber(a), Neg(ToNumber(b)))
Mul(a, b) ==
    IF a.k = "fin" /\ b.k = "fin"
    THEN Fin(Sgn(a.v) * Sgn(b.v) * MulNat(Abs(a.v), Abs(b.v)))
    ELSE MulNum(ToNumber(a), ToNumber(b))
Div(a, b) ==
    IF a.k = "fin" /\ b.k = "fin" /\ b.v # 0
    THEN Fin(Sgn(a.v) * Sgn(b.v) * DivNat(Abs(a.v), Abs(b.v)))
    ELSE DivNum(ToNumber(a), ToNumber(b))

\* a < b and a <= b on numbers: false whenever an operand is NaN.
LtNum(a, b) ==
    CASE a.k = "nan" \/ b.k = "nan" -> FALSE
      [] a.k = "inf" /\ b.k = "inf" -> a.v < b.v
      [] a.k = "inf" -> a.v < 0
      [] b.k = "inf" -> b.v > 0
      [] OTHER -> a.v < b.v
Lt(a, b) ==
    IF a.k = "fin" /\ b.k = "fin" THEN a.v < b.v ELSE LtNum(ToNumber(a), ToNumber(b))
Le(a, b) ==
    /\ ToNumber(a).k # "nan"
    /\ ToNumber(b).k # "nan"
    /\ ~LtNum(ToNumber(b), ToNumber(a))

\* Math.max and Math.min: NaN if an operand converts to NaN.
MathMax(a, b) ==
    IF a.k = "fin" /\ b.k = "fin"
    THEN IF a.v < b.v THEN b ELSE a
    ELSE LET x == ToNumber(a)
             y == ToNumber(b)
         IN  IF x.k = "nan" \/ y.k = "nan" THEN NaN ELSE IF LtNum(x, y) THEN y ELSE x
MathMin(a, b) ==
    IF a.k = "fin" /\ b.k = "fin"
    THEN IF b.v < a.v THEN b ELSE a
    ELSE LET x == ToNumber(a)
             y == ToNumber(b)
         IN  IF x.k = "nan" \/ y.k = "nan" THEN NaN ELSE IF LtNum(y, x) THEN y ELSE x

\* clamp(x, lo, hi) = Math.max(lo, Math.min(hi, x))
clamp(x, lo, hi) ==
    IF x.k = "nan" THEN NaN ELSE MathMax(lo, MathMin(hi, x))
clamp01(x) == clamp(x, Fin(0), Num(1))

\* Math.round: the nearest integer, halves rounded up.
MathRound(x) ==
    IF x.k = "fin" THEN Fin(((2 * x.v + SCALE) \div (2 * SCALE)) * SCALE) ELSE ToNumber(x)
round1(n) == Div(MathRound(Mul(n, Num(10))), Num(10))

----------------------------------------------------------------------------
(* Reference data *)

SERVICE_KEYS == <<"ground", "twoDay", "overnight">>
ServiceKeys == {SERVICE_KEYS[i] : i \in DOMAIN SERVICE_KEYS}

LANES == <<
    [id |-> "SFO->JFK", distanceKm |-> Num(4150),
     baseTransitDays |-> [ground |-> Dec(65, 10), twoDay |-> Num(2), overnight |-> Num(1)],
     baseCost |-> [ground |-> Num(18), twoDay |-> Num(42), overnight |-> Num(69)]],
    [id |-> "LAX->ATL", distanceKm |-> Num(3120),
     baseTransitDays |-> [ground |-> Num(5), twoDay |-> Num(2), overnight |-> Num(1)],
     baseCost |-> [ground |-> Num(16), twoDay |-> Num(39), overnight |-> Num(62)]],
    [id |-> "DFW->ORD", distanceKm |-> Num(1290),
     baseTransitDays |-> [ground |-> Num(3), twoDay |-> Num(2), overnight |-> Num(1)],
     baseCost |-> [ground |-> Num(12), twoDay |-> Num(29), overnight |-> Num(49)]],
    [id |-> "SEA->MIA", distanceKm |-> Num(5420),
     baseTransitDays |-> [ground |-> Num(7), twoDay |-> Num(2), overnight |-> Num(1)],
     baseCost |-> [ground |-> Num(20), twoDay |-> Num(45), overnight |-> Num(75)]] >>
LaneIds == {LANES[i].id : i \in DOMAIN LANES}

DEFAULT_EMISSION_FACTORS ==
    JObj([ground |-> Dec(62, 1000), twoDay |-> Dec(30, 100), overnight |-> Dec(60, 100)])

\* ROW_LABELS.length and COL_LABELS.length
ROWS == 6
COLS == 10

\* obj[key] for a key that is a JavaScript value: undefined unless obj is an
\* object that owns the key (a string or number has none of the keys used).
Prop(obj, key) ==
    IF obj.k = "obj" /\ key.k = "str" /\ key.s \in DOMAIN obj.f
    THEN obj.f[key.s]
    ELSE Undef

----------------------------------------------------------------------------
(* Risk grid model.  A grid is a sequence of rows of integer cells. *)

\* reduce((a, b) => a + b, 0), summed by halves to keep the recursion shallow.
RECURSIVE SumSeq(_)
SumSeq(s) ==
    IF Len(s) = 0 THEN 0
    ELSE IF Len(s) = 1 THEN s[1]
    ELSE SumSeq(SubSeq(s, 1, Len(s) \div 2)) + SumSeq(SubSeq(s, Len(s) \div 2 + 1, Len(s)))

RECURSIVE flat(_)
flat(grid) == IF grid = <<>> THEN <<>> ELSE Head(grid) \o flat(Tail(grid))

\* The grids Math.random() can make genRiskGrid(seed) return: a cell is 2 when
\* the first draw is below seed, else 1 when the second is below 1.5 * seed.
\* The model draws the two extreme outcomes.
ConstGrid(x) == [r \in 1..ROWS |-> [c \in 1..COLS |-> x]]
MixedGrid == [r \in 1..ROWS |-> [c \in 1..COLS |-> (r + c) % 3]]
genRiskGrid(seed) ==
    IF Lt(Fin(0), seed) THEN {ConstGrid(0), ConstGrid(2)} ELSE {ConstGrid(0)}

\* Mutant of summarizeGridRisk: the sum is divided by the cell count alone.
summarizeGridRiskPerCell(grid) == Div(Num(SumSeq(flat(grid))), Num(Len(flat(grid))))
summarizeGridRisk(grid) == Div(Num(SumSeq(flat(grid))), Num(Len(flat(grid)) * 2))
rowRisk(grid) == [r \in DOMAIN grid |-> Div(Num(SumSeq(grid[r])), Num(Len(grid[r]) * 2))]

----------------------------------------------------------------------------
(* Component state (the useState cells of PromiseXSimulator), the scenario   *)
(* kept in localStorage under "promisex_scenario", and two bookkeeping       *)
(* variables: savedAt remembers the state saveScenario serialized, steps     *)
(* counts the input events of the run.  The presentation-only cells          *)
(* (persona, highContrast, showDiagnostics, the clock) are left out.         *)

VARIABLES laneId, service, weightKg, holidayPeak, weather, congestion,
          sensorCoverage, emissionFactors, riskGrid, isPainting, slaTarget,
          intervened, interventionDelta, volPerWeek, penaltyPerLate,
          storage, savedAt, steps,
          before  \* history: the render values an observed handler started from

scenario == <<laneId, service, weightKg, holidayPeak, weather, congestion,
              sensorCoverage, emissionFactors, slaTarget, riskGrid>>
vars == <<laneId, service, weightKg, holidayPeak, weather, congestion,
          sensorCoverage, emissionFactors, riskGrid, isPainting, slaTarget,
          intervened, interventionDelta, volPerWeek, penaltyPerLate,
          storage, savedAt, steps, before>>

\* No observation is held: the last event was not one of the observed ones.
NoRecord == [op |-> "none"]

\* Input events explored per run.
MaxSteps == 2

----------------------------------------------------------------------------
(* Derived values (the useMemo chain) *)

\* LANES.find((l) => l.id === laneId): undefined when no lane has that id.
lane ==
    LET hit == {i \in DOMAIN LANES : JStr(LANES[i].id) = laneId}
    IN  IF hit = {} THEN Undef ELSE LANES[CHOOSE i \in hit : TRUE]

networkRisk == summarizeGridRisk(riskGrid)

baseRisk ==
    LET envFactor == Add(Mul(Dec(6, 10), Div(weather, Num(100))),
                         Mul(Dec(4, 10), Div(congestion, Num(100))))
        holidayAdj == IF holidayPeak THEN Dec(125, 100) ELSE Num(1)
    IN  clamp01(Mul(envFactor, holidayAdj))

\* Mutant of effectiveRisk: sensor coverage amplifies the risk.
effectiveRiskCoverageAmplifies ==
    LET sensorFactor == Add(Num(1), Mul(Dec(35, 100), Div(sensorCoverage, Num(100))))
        r == clamp01(Mul(Add(Mul(Dec(5, 10), baseRisk), Mul(Dec(5, 10), networkRisk)),
                         sensorFactor))
    IN  IF intervened THEN clamp01(Mul(r, Sub(Num(1), interventionDelta.risk))) ELSE r

effectiveRisk ==
    LET sensorFactor == Sub(Num(1), Mul(Dec(35, 100), Div(sensorCoverage, Num(100))))
        r == clamp01(Mul(Add(Mul(Dec(5, 10), baseRisk), Mul(Dec(5, 10), networkRisk)),
                         sensorFactor))
    IN  IF intervened THEN clamp01(Mul(r, Sub(Num(1), interventionDelta.risk))) ELSE r

\* The prediction memo reads lane.baseTransitDays first: with lane undefined
\* that read throws a TypeError during render.
PredictionThrows == lane = Undef

\* The drivers memo.  Its terms are kept in units of 1 / FINE, fine enough to
\* hold the 1e-6 the code adds to the total; a share is rounded to 1 / SCALE.
FINE == 10 ^ 7
\* x * y for x in units of 1 / FINE and a modelled double y.
MulFine(x, y) == Sgn(x) * Sgn(y.v) * MulNat(Abs(x), Abs(y.v))
\* x / total for x and total in units of 1 / FINE.
DivFine(x, total) ==
    IF total = 0
    THEN IF x = 0 THEN NaN ELSE Inf(Sgn(x))
    ELSE Fin(Sgn(x) * Sgn(total) * DivNat(Abs(x), Abs(total)))
drivers ==
    LET adj == IF holidayPeak THEN Dec(125, 100) ELSE Num(1)
        n == networkRisk
    IN  IF weather.k = "fin" /\ congestion.k = "fin" /\ n.k = "fin"
        THEN LET w == MulFine(MulFine(weather.v * (FINE \div (100 * SCALE)), adj),
                              Dec(6, 10))
                 c == MulFine(MulFine(congestion.v * (FINE \div (100 * SCALE)), adj),
                              Dec(4, 10))
                 nf == n.v * (FINE \div SCALE)
                 total == w + c + nf + FINE \div 10 ^ 6
             IN  << [name |-> "Weather", v |-> DivFine(w, total)],
                    [name |-> "Congestion", v |-> DivFine(c, total)],
                    [name |-> "Network", v |-> DivFine(nf, total)] >>
        \* a non-finite term absorbs the 1e-6
        ELSE LET w == Mul(Mul(Div(weather, Num(100)), adj), Dec(6, 10))
                 c == Mul(Mul(Div(congestion, Num(100)), adj), Dec(4, 10))
                 total == Add(Add(w, c), n)
             IN  << [name |-> "Weather", v |-> Div(w, total)],
                    [name |-> "Congestion", v |-> Div(c, total)],
                    [name |-> "Network", v |-> Div(n, total)] >>

baseDays == Prop(JObj(lane.baseTransitDays), service)
stretch ==
    Sub(Add(Num(1), Mul(Dec(3, 10), effectiveRisk)),
        IF intervened THEN Dec(7, 100) ELSE Fin(0))
p50Days == Mul(baseDays, stretch)
\* Mutant of p90Days: the spread is added to the unstretched base days.
p90DaysUnstretched ==
    Add(Add(baseDays, Mul(Dec(8, 10), effectiveRisk)),
        IF holidayPeak THEN Dec(5, 10) ELSE Fin(0))
\* Mutant of p90Days: the peak allowance is added whether or not peak is on.
p90DaysAlwaysPeak == Add(Add(p50Days, Mul(Dec(8, 10), effectiveRisk)), Dec(5, 10))
p90Days ==
    Add(Add(p50Days, Mul(Dec(8, 10), effectiveRisk)),
        IF holidayPeak THEN Dec(5, 10) ELSE Fin(0))
\* The locals sigma, end and the first x of the etaDensityData memo.
etaDensitySigma == MathMax(Dec(25, 100), Div(Sub(p90Days, p50Days), Dec(128, 100)))
etaDensityEnd ==
    LET sigma == etaDensitySigma
    IN  MathMax(Add(p50Days, Mul(Num(3), sigma)), Add(p90Days, Num(1)))
etaDensityStart ==
    MathMax(Dec(3, 10), Sub(p50Days, Mul(Num(3), etaDensitySigma)))
\* The d of the data array of the etaDensityData memo, before round1, for the
\* loop bounds start and end and the given step.  The loop adds step to x
\* while x <= end: its i-th x is start + (i - 1) * step.  With a NaN bound the
\* loop condition is false at once.
densitySamples(start, end, step) ==
    LET n == IF IsFinite(start) /\ IsFinite(end) /\ IsFinite(step) /\ start.v <= end.v
             THEN (end.v - start.v) \div step.v + 1
             ELSE 0
    IN  [i \in 1..n |-> Fin(start.v + (i - 1) * step.v)]
\* Mutant of etaDensityData: the step is taken over the sampled range.
etaDensityDataRangeStep ==
    LET start == etaDensityStart
        end == etaDensityEnd
        step == MathMax(Dec(15, 100), Div(Sub(end, start), Num(48)))
        data == densitySamples(start, end, step)
    IN  [i \in DOMAIN data |-> [d |-> round1(data[i])]]
\* The etaDensityData memo; the normalised density p of a sample is not modelled.
etaDensityData ==
    LET start == etaDensityStart
        end == etaDensityEnd
        step == MathMax(Dec(15, 100), Div(end, Num(48)))
        data == densitySamples(start, end, step)
    IN  [i \in DOMAIN data |-> [d |-> round1(data[i])]]
slaDays ==
    IF service = JStr("ground")
    THEN Add(lane.baseTransitDays.ground, Num(1))
    ELSE Prop(JObj(lane.baseTransitDays), service)
lateness == MathMax(Fin(0), Sub(p50Days, slaDays))
\* Mutant of onTimeProb: the probability is computed on the 0..100 scale.
onTimeProbPercentScale ==
    clamp(Sub(Sub(Num(100), Mul(Num(65), effectiveRisk)),
              Div(Mul(Num(15), lateness), MathMax(Dec(5, 10), slaDays))),
          Fin(0), Num(100))
onTimeProb ==
    clamp01(Sub(Sub(Num(1), Mul(Dec(65, 100), effectiveRisk)),
                Div(Mul(Dec(15, 100), lateness), MathMax(Dec(5, 10), slaDays))))
dist ==
    Mul(lane.distanceKm,
        Add(Num(1), IF intervened THEN interventionDelta.distancePct ELSE Fin(0)))
tonneKm == Mul(Div(weightKg, Num(1000)), dist)
\* Mutant of emissionsKg: the distance penalty of the intervention is ignored.
emissionsKgWithoutPenalty ==
    Mul(Mul(Div(weightKg, Num(1000)), lane.distanceKm), Prop(emissionFactors, service))
emissionsKg == Mul(tonneKm, Prop(emissionFactors, service))

\* Mutant of serviceMixRow: a non-selected service is given a higher risk
\* than the selected one.
serviceMixRowRiskierAlternatives(k) ==
    LET riskAdj == IF JStr(k) = service
                   THEN effectiveRisk
                   ELSE clamp(Add(Mul(effectiveRisk, Dec(9, 10)),
                                  IF k = "overnight" THEN Dec(1, 10) ELSE Dec(15, 100)),
                              Fin(0), Num(1))
        base == lane.baseTransitDays[k]
        p50k == Mul(base, Add(Num(1), Mul(Dec(25, 100), riskAdj)))
        slaK == IF k = "ground"
                THEN Add(lane.baseTransitDays.ground, Num(1))
                ELSE lane.baseTransitDays[k]
    IN  [key |-> k,
         otp |-> clamp01(Sub(Sub(Num(1), Mul(Dec(6, 10), riskAdj)),
                             Div(Mul(Dec(12, 100), MathMax(Fin(0), Sub(p50k, slaK))),
                                 MathMax(Dec(5, 10), slaK)))),
         cost |-> lane.baseCost[k],
         p50 |-> p50k,
         co2kg |-> Mul(Mul(Div(weightKg, Num(1000)), dist), Prop(emissionFactors, JStr(k)))]
\* One element of SERVICE_KEYS.map(...): the row of service class k (the
\* display label is left out).
serviceMixRow(k) ==
    LET riskAdj == IF JStr(k) = service
                   THEN effectiveRisk
                   ELSE clamp(Add(Mul(effectiveRisk, Dec(9, 10)),
                                  IF k = "overnight" THEN Dec(-1, 10) ELSE Dec(-5, 100)),
                              Fin(0), Num(1))
        base == lane.baseTransitDays[k]
        p50k == Mul(base, Add(Num(1), Mul(Dec(25, 100), riskAdj)))
        slaK == IF k = "ground"
                THEN Add(lane.baseTransitDays.ground, Num(1))
                ELSE lane.baseTransitDays[k]
    IN  [key |-> k,
         otp |-> clamp01(Sub(Sub(Num(1), Mul(Dec(6, 10), riskAdj)),
                             Div(Mul(Dec(12, 100), MathMax(Fin(0), Sub(p50k, slaK))),
                                 MathMax(Dec(5, 10), slaK)))),
         cost |-> lane.baseCost[k],
         p50 |-> p50k,
         co2kg |-> Mul(Mul(Div(weightKg, Num(1000)), dist), Prop(emissionFactors, JStr(k)))]
\* Mutant of serviceMix: the selected service is left out of the table.
serviceMixAlternativesOnly ==
    LET keys == SelectSeq(SERVICE_KEYS, LAMBDA k : JStr(k) # service)
    IN  [i \in DOMAIN keys |-> serviceMixRow(keys[i])]
serviceMix == [i \in DOMAIN SERVICE_KEYS |-> serviceMixRow(SERVICE_KEYS[i])]

\* The suggestion memo; random is the Math.random() draw.  null is Undef.
threshold == Dec(42, 100)
suggestion(random) ==
    IF Le(effectiveRisk, threshold)
    THEN Undef
    ELSE [riskCut |-> Add(Dec(35, 100),
                          Mul(Dec(2, 10),
                              MathMin(Num(1), Div(Sub(effectiveRisk, threshold),
                                                  Sub(Num(1), threshold))))),
          distancePenalty |-> Add(Dec(5, 100), Mul(Dec(7, 100), random))]

\* Mutant of getSlaBreachLabel: a probability equal to the target is a breach.
getSlaBreachLabelInclusive(otp, targetPct) ==
    IF Le(otp, Div(targetPct, Num(100))) THEN "Elevated" ELSE "Low"
getSlaBreachLabel(otp, targetPct) ==
    IF Lt(otp, Div(targetPct, Num(100))) THEN "Elevated" ELSE "Low"
\* The label the Operations tab shows.
slaBreachLabel == getSlaBreachLabel(onTimeProb, slaTarget)

\* The sales figures: SLA gap in points, late fraction, weekly exposure.
slaGapPts ==
    MathMax(Fin(0), MathRound(Mul(Sub(Div(slaTarget, Num(100)), onTimeProb), Num(100))))
latePct == MathMax(Fin(0), Sub(Div(slaTarget, Num(100)), onTimeProb))
exposureUSD == MathRound(Mul(Mul(volPerWeek, latePct), penaltyPerLate))

\* Mutant of bestAlt: the alternatives are not sorted, the first one is taken.
bestAltUnsorted ==
    LET alts == SelectSeq(serviceMix, LAMBDA m : JStr(m.key) # service)
    IN  IF alts = <<>> THEN Undef ELSE alts[1]
\* serviceMix.filter((m) => m.key !== service).sort((a, b) => b.otp - a.otp)[0]:
\* the sort is stable, so the first of the rows no other row beats; a NaN
\* difference orders nothing.  undefined when no row is left.
bestAlt ==
    LET alts == SelectSeq(serviceMix, LAMBDA m : JStr(m.key) # service)
        top == {i \in DOMAIN alts : \A j \in DOMAIN alts : ~Lt(alts[i].otp, alts[j].otp)}
    IN  IF alts = <<>> THEN Undef ELSE alts[CHOOSE i \in top : \A j \in top : i <= j]

upsellShare ==
    LET best == bestAlt
        otp == onTimeProb
        target == Div(slaTarget, Num(100))
        f == Div(Sub(target, otp), MathMax(Dec(1, 10000), Sub(best.otp, otp)))
    IN  IF best = Undef THEN Fin(0) ELSE clamp(f, Fin(0), Num(1))

----------------------------------------------------------------------------
(* localStorage and JSON *)

\* localStorage.getItem results: no item, a text JSON.parse rejects, or a
\* text that parses (kept as the object JSON.parse returns for it).
NoItem == [k |-> "none"]
Unparseable == [k |-> "text"]
Parsed(doc) == [k |-> "json", v |-> doc]

\* JSON.stringify of a primitive: a non-finite number becomes null.
stringifyPrimitive(x) == IF x.k \in {"inf", "nan"} THEN JNull ELSE x
\* JSON.stringify of a value: an object keeps its properties, each converted
\* (a property holding undefined is dropped, so it reads back as missing).
stringifyValue(x) ==
    IF x.k = "obj"
    THEN JObj([key \in DOMAIN x.f |-> stringifyPrimitive(x.f[key])])
    ELSE stringifyPrimitive(x)

\* The object saveScenario hands to JSON.stringify, as JSON.parse gives it back.
snapshot ==
    [laneId |-> stringifyValue(laneId),
     service |-> stringifyValue(service),
     weightKg |-> stringifyValue(weightKg),
     holidayPeak |-> JBool(holidayPeak),
     weather |-> stringifyValue(weather),
     congestion |-> stringifyValue(congestion),
     sensorCoverage |-> stringifyValue(sensorCoverage),
     emissionFactors |-> stringifyValue(emissionFactors),
     slaTarget |-> stringifyValue(slaTarget),
     riskGrid |-> JArr(riskGrid)]

\* Documents another session, another build or the user may have left in the
\* store: every property missing, a complete well-formed snapshot, and
\* snapshots with unknown ids, out-of-range, non-finite or wrongly typed
\* values, and a well-formed one with values at the low end of their ranges.
EmptyDoc ==
    [laneId |-> Undef, service |-> Undef, weightKg |-> Undef, holidayPeak |-> Undef,
     weather |-> Undef, congestion |-> Undef, sensorCoverage |-> Undef,
     emissionFactors |-> Undef, slaTarget |-> Undef, riskGrid |-> Undef]
GoodDoc ==
    [laneId |-> JStr("LAX->ATL"), service |-> JStr("overnight"), weightKg |-> Num(10),
     holidayPeak |-> JBool(TRUE), weather |-> Num(60), congestion |-> Num(70),
     sensorCoverage |-> Num(20),
     emissionFactors |-> JObj([ground |-> Dec(5, 100), twoDay |-> Dec(2, 10),
                               overnight |-> Dec(5, 10)]),
     slaTarget |-> Num(90), riskGrid |-> JArr(MixedGrid)]
StoredDocs ==
    { EmptyDoc,
      GoodDoc,
      [EmptyDoc EXCEPT !.laneId = JStr("JFK->SFO")],
      [EmptyDoc EXCEPT !.service = JStr("express"),
                       !.emissionFactors =
                           JObj([ground |-> Fin(-1 * SCALE), twoDay |-> Undef,
                                 overnight |-> JStr("high")]),
                       !.riskGrid = JArr(<<>>)],
      [GoodDoc EXCEPT !.weightKg = Fin(-5 * SCALE), !.weather = Num(500),
                      !.congestion = Fin(-50 * SCALE), !.sensorCoverage = Num(250),
                      !.slaTarget = Num(150),
                      !.riskGrid = JArr(<< <<5, 1, 0>>, <<1>> >>)],
      [EmptyDoc EXCEPT !.weather = Inf(1), !.congestion = Inf(-1), !.weightKg = Inf(1)],
      [EmptyDoc EXCEPT !.weather = Fin(1), !.congestion = Fin(0), !.weightKg = Fin(0)],
      [GoodDoc EXCEPT !.weightKg = JStr("heavy"), !.holidayPeak = JStr("yes"),
                      !.weather = JStr("60"), !.congestion = JNull,
                      !.sensorCoverage = JBool(TRUE), !.slaTarget = JStr("90"),
                      !.riskGrid = JStr("grid")] }
StoredItems == {NoItem, Unparseable} \cup {Parsed(d) : d \in StoredDocs}

----------------------------------------------------------------------------
(* Initial state *)

NoSave == <<>>

Init ==
    /\ laneId = JStr(LANES[1].id)
    /\ service = JStr("ground")
    /\ weightKg = Num(2)
    /\ holidayPeak = FALSE
    /\ weather = Num(35)
    /\ congestion = Num(25)
    /\ sensorCoverage = Num(40)
    /\ emissionFactors = DEFAULT_EMISSION_FACTORS
    /\ riskGrid \in genRiskGrid(Dec(22, 100))
    /\ isPainting = FALSE
    /\ slaTarget = Num(95)
    /\ intervened = FALSE
    /\ interventionDelta = [risk |-> Fin(0), distancePct |-> Fin(0)]
    /\ volPerWeek = Num(2000)
    /\ penaltyPerLate = Num(2)
    /\ storage \in StoredItems
    /\ savedAt = NoSave
    /\ steps = 0
    /\ before = NoRecord

----------------------------------------------------------------------------
(* Event handlers.  A render that throws unmounts the component, so a        *)
(* handler runs only while the last render succeeded.  Every handler is one  *)
(* atomic step: React applies the setters of a handler together.             *)

Mounted == ~PredictionThrows
Event == Mounted /\ steps < MaxSteps /\ steps' = steps + 1 /\ before' = NoRecord
\* An event whose handler is observed: the render values it started from are
\* kept beside the state it produces.
Observed(op) ==
    /\ Mounted
    /\ steps < MaxSteps
    /\ steps' = steps + 1
    /\ before' = [op |-> op, sensorCoverage |-> sensorCoverage,
                  effectiveRisk |-> effectiveRisk, onTimeProb |-> onTimeProb,
                  riskGrid |-> riskGrid, isPainting |-> isPainting]

\* Values the input widgets hand to their handlers.
WeightInputs == {Num(40)}
PercentInputs == {Fin(0), Num(100)}
FactorInputs == {Num(1), NaN}
SlaInputs == {Num(80)}
VolumeInputs == {Fin(0)}
PenaltyInputs == {Num(5)}
RandomDraws == {Fin(0), Dec(9999, 10000)}
\* Cells the pointer visits (row, column).
PointerCells == {<<1, 1>>, <<1, 2>>, <<3, 5>>}

SelectLane(v) ==
    /\ Event
    /\ laneId' = JStr(v)
    /\ UNCHANGED <<service, weightKg, holidayPeak, weather, congestion, sensorCoverage,
                   emissionFactors, riskGrid, isPainting, slaTarget, intervened,
                   interventionDelta, volPerWeek, penaltyPerLate, storage, savedAt>>

SelectService(key) ==
    /\ Event
    /\ service' = JStr(key)
    /\ UNCHANGED <<laneId, weightKg, holidayPeak, weather, congestion, sensorCoverage,
                   emissionFactors, riskGrid, isPainting, slaTarget, intervened,
                   interventionDelta, volPerWeek, penaltyPerLate, storage, savedAt>>

SlideWeight(v) ==
    /\ Event
    /\ weightKg' = v
    /\ UNCHANGED <<laneId, service, holidayPeak, weather, congestion, sensorCoverage,
                   emissionFactors, riskGrid, isPainting, slaTarget, intervened,
                   interventionDelta, volPerWeek, penaltyPerLate, storage, savedAt>>

SwitchPeak ==
    /\ Event
    /\ holidayPeak' = ~holidayPeak
    /\ UNCHANGED <<laneId, service, weightKg, weather, congestion, sensorCoverage,
                   emissionFactors, riskGrid, isPainting, slaTarget, intervened,
                   interventionDelta, volPerWeek, penaltyPerLate, storage, savedAt>>

SlideWeather(v) ==
    /\ Event
    /\ weather' = v
    /\ UNCHANGED <<laneId, service, weightKg, holidayPeak, congestion, sensorCoverage,
                   emissionFactors, riskGrid, isPainting, slaTarget, intervened,
                   interventionDelta, volPerWeek, penaltyPerLate, storage, savedAt>>

SlideCongestion(v) ==
    /\ Event
    /\ congestion' = v
    /\ UNCHANGED <<laneId, service, weightKg, holidayPeak, weather, sensorCoverage,
                   emissionFactors, riskGrid, isPainting, slaTarget, intervened,
                   interventionDelta, volPerWeek, penaltyPerLate, storage, savedAt>>

SlideSensorCoverage(v) ==
    /\ Observed("SlideSensorCoverage")
    /\ sensorCoverage' = v
    /\ UNCHANGED <<laneId, service, weightKg, holidayPeak, weather, congestion,
                   emissionFactors, riskGrid, isPainting, slaTarget, intervened,
                   interventionDelta, volPerWeek, penaltyPerLate, storage, savedAt>>

\* {...emissionFactors, [key]: v}
withFactor(ef, key, v) ==
    IF ef.k = "obj"
    THEN JObj([ef.f EXCEPT ![key] = v])
    ELSE JObj([x \in ServiceKeys |-> IF x = key THEN v ELSE Undef])

EditEmissionFactor(key, v) ==
    /\ Event
    /\ emissionFactors' = IF IsFinite(v) /\ Le(Fin(0), v)
                          THEN withFactor(emissionFactors, key, v)
                          ELSE emissionFactors
    /\ UNCHANGED <<laneId, service, weightKg, holidayPeak, weather, congestion,
                   sensorCoverage, riskGrid, isPainting, slaTarget, intervened,
                   interventionDelta, volPerWeek, penaltyPerLate, storage, savedAt>>

SlideSlaTarget(v) ==
    /\ Event
    /\ slaTarget' = v
    /\ UNCHANGED <<laneId, service, weightKg, holidayPeak, weather, congestion,
                   sensorCoverage, emissionFactors, riskGrid, isPainting, intervened,
                   interventionDelta, volPerWeek, penaltyPerLate, storage, savedAt>>

EditVolPerWeek(v) ==
    /\ Event
    /\ volPerWeek' = v
    /\ UNCHANGED <<laneId, service, weightKg, holidayPeak, weather, congestion,
                   sensorCoverage, emissionFactors, riskGrid, isPainting, slaTarget,
                   intervened, interventionDelta, penaltyPerLate, storage, savedAt>>

EditPenaltyPerLate(v) ==
    /\ Event
    /\ penaltyPerLate' = v
    /\ UNCHANGED <<laneId, service, weightKg, holidayPeak, weather, congestion,
                   sensorCoverage, emissionFactors, riskGrid, isPainting, slaTarget,
                   intervened, interventionDelta, volPerWeek, storage, savedAt>>

\* The % operator: the result takes the sign of the dividend.
jsRem(a, n) == IF a < 0 THEN -((-a) % n) ELSE a % n

\* Mutant of withCell: the rows are not copied one by one, the write lands in
\* every cell of the row.
withCellSharedRow(g, r, c, x) == [g EXCEPT ![r] = [j \in DOMAIN g[r] |-> x]]
\* g.map((row) => row.slice()) with cell (r, c) replaced.
withCell(g, r, c, x) == [g EXCEPT ![r] = [g[r] EXCEPT ![c] = x]]

toggleCell(g, r, c) == withCell(g, r, c, jsRem(g[r][c] + 1, 3))
paintCell(g, r, c) == withCell(g, r, c, IF g[r][c] + 1 < 2 THEN g[r][c] + 1 ELSE 2)

\* A cell's handlers exist for the cells the heatmap renders.
Rendered(r, c) == r \in DOMAIN riskGrid /\ c \in DOMAIN riskGrid[r]

CellMouseDown(r, c) ==
    /\ Event
    /\ Rendered(r, c)
    /\ isPainting' = TRUE
    /\ riskGrid' = toggleCell(riskGrid, r, c)
    /\ UNCHANGED <<laneId, service, weightKg, holidayPeak, weather, congestion,
                   sensorCoverage, emissionFactors, slaTarget, intervened,
                   interventionDelta, volPerWeek, penaltyPerLate, storage, savedAt>>

\* Mutant of CellMouseEnter: the handler paints whether or not paint mode is on.
CellMouseEnterUnguarded(r, c) ==
    /\ Observed("CellMouseEnter")
    /\ Rendered(r, c)
    /\ riskGrid' = paintCell(riskGrid, r, c)
    /\ UNCHANGED <<laneId, service, weightKg, holidayPeak, weather, congestion,
                   sensorCoverage, emissionFactors, isPainting, slaTarget, intervened,
                   interventionDelta, volPerWeek, penaltyPerLate, storage, savedAt>>
CellMouseEnter(r, c) ==
    /\ Observed("CellMouseEnter")
    /\ Rendered(r, c)
    /\ riskGrid' = IF isPainting THEN paintCell(riskGrid, r, c) ELSE riskGrid
    /\ UNCHANGED <<laneId, service, weightKg, holidayPeak, weather, congestion,
                   sensorCoverage, emissionFactors, isPainting, slaTarget, intervened,
                   interventionDelta, volPerWeek, penaltyPerLate, storage, savedAt>>

HeatmapMouseUp ==
    /\ Event
    /\ isPainting' = FALSE
    /\ UNCHANGED <<laneId, service, weightKg, holidayPeak, weather, congestion,
                   sensorCoverage, emissionFactors, riskGrid, slaTarget, intervened,
                   interventionDelta, volPerWeek, penaltyPerLate, storage, savedAt>>

HeatmapMouseLeave ==
    /\ Event
    /\ isPainting' = FALSE
    /\ UNCHANGED <<laneId, service, weightKg, holidayPeak, weather, congestion,
                   sensorCoverage, emissionFactors, riskGrid, slaTarget, intervened,
                   interventionDelta, volPerWeek, penaltyPerLate, storage, savedAt>>

\* PRESETS: the values apply() returns; outage marks the preset that paints
\* rows 2..3, columns 4..6 (0-based) high after generating its grid.
PRESETS == <<
    [id |-> "Baseline", weather |-> Num(25), congestion |-> Num(20),
     holidayPeak |-> FALSE, sensorCoverage |-> Num(40), seed |-> Dec(12, 100),
     outage |-> FALSE],
    [id |-> "Winter storm", weather |-> Num(80), congestion |-> Num(65),
     holidayPeak |-> FALSE, sensorCoverage |-> Num(35), seed |-> Dec(5, 10),
     outage |-> FALSE],
    [id |-> "Peak + sensor", weather |-> Num(50), congestion |-> Num(70),
     holidayPeak |-> TRUE, sensorCoverage |-> Num(80), seed |-> Dec(35, 100),
     outage |-> FALSE],
    [id |-> "Facility outage", weather |-> Num(30), congestion |-> Num(45),
     holidayPeak |-> FALSE, sensorCoverage |-> Num(50), seed |-> Dec(2, 10),
     outage |-> TRUE] >>

outageGrid(g) ==
    [r \in DOMAIN g |-> [c \in DOMAIN g[r] |->
        IF r \in 3..4 /\ c \in 5..7 THEN 2 ELSE g[r][c]]]

\* Mutant of applyPreset: the intervention is left as it is.
applyPresetKeepingIntervention(id) ==
    /\ Event
    /\ \E i \in DOMAIN PRESETS :
         /\ PRESETS[i].id = id
         /\ weather' = PRESETS[i].weather
         /\ congestion' = PRESETS[i].congestion
         /\ holidayPeak' = PRESETS[i].holidayPeak
         /\ sensorCoverage' = PRESETS[i].sensorCoverage
         /\ \E g \in genRiskGrid(PRESETS[i].seed) :
              riskGrid' = IF PRESETS[i].outage THEN outageGrid(g) ELSE g
    /\ UNCHANGED <<laneId, service, weightKg, emissionFactors, isPainting, slaTarget,
                   intervened, interventionDelta, volPerWeek, penaltyPerLate,
                   storage, savedAt>>

applyPreset(id) ==
    /\ Event
    /\ \E i \in DOMAIN PRESETS :
         /\ PRESETS[i].id = id
         /\ weather' = PRESETS[i].weather
         /\ congestion' = PRESETS[i].congestion
         /\ holidayPeak' = PRESETS[i].holidayPeak
         /\ sensorCoverage' = PRESETS[i].sensorCoverage
         /\ \E g \in genRiskGrid(PRESETS[i].seed) :
              riskGrid' = IF PRESETS[i].outage THEN outageGrid(g) ELSE g
    /\ intervened' = FALSE
    /\ interventionDelta' = [risk |-> Fin(0), distancePct |-> Fin(0)]
    /\ UNCHANGED <<laneId, service, weightKg, emissionFactors, isPainting, slaTarget,
                   volPerWeek, penaltyPerLate, storage, savedAt>>

\* Mutant of resetAll: the sales inputs are not reset.
resetAllKeepingSalesInputs ==
    /\ Observed("resetAll")
    /\ laneId' = JStr(LANES[1].id)
    /\ service' = JStr("ground")
    /\ weightKg' = Num(2)
    /\ holidayPeak' = FALSE
    /\ weather' = Num(35)
    /\ congestion' = Num(25)
    /\ sensorCoverage' = Num(40)
    /\ emissionFactors' = DEFAULT_EMISSION_FACTORS
    /\ riskGrid' \in genRiskGrid(Dec(22, 100))
    /\ intervened' = FALSE
    /\ interventionDelta' = [risk |-> Fin(0), distancePct |-> Fin(0)]
    /\ UNCHANGED <<slaTarget, volPerWeek, penaltyPerLate, isPainting, storage, savedAt>>
resetAll ==
    /\ Observed("resetAll")
    /\ laneId' = JStr(LANES[1].id)
    /\ service' = JStr("ground")
    /\ weightKg' = Num(2)
    /\ holidayPeak' = FALSE
    /\ weather' = Num(35)
    /\ congestion' = Num(25)
    /\ sensorCoverage' = Num(40)
    /\ emissionFactors' = DEFAULT_EMISSION_FACTORS
    /\ riskGrid' \in genRiskGrid(Dec(22, 100))
    /\ intervened' = FALSE
    /\ interventionDelta' = [risk |-> Fin(0), distancePct |-> Fin(0)]
    /\ slaTarget' = Num(95)
    /\ volPerWeek' = Num(2000)
    /\ penaltyPerLate' = Num(2)
    /\ UNCHANGED <<isPainting, storage, savedAt>>

\* The one-click intervene button is rendered while suggestion && !intervened.
Intervene(random) ==
    /\ Observed("Intervene")
    /\ suggestion(random) # Undef
    /\ ~intervened
    /\ intervened' = TRUE
    /\ interventionDelta' = [risk |-> suggestion(random).riskCut,
                             distancePct |-> suggestion(random).distancePenalty]
    /\ UNCHANGED <<laneId, service, weightKg, holidayPeak, weather, congestion,
                   sensorCoverage, emissionFactors, riskGrid, isPainting, slaTarget,
                   volPerWeek, penaltyPerLate, storage, savedAt>>

saveScenario ==
    /\ Mounted
    /\ storage' = Parsed(snapshot)
    /\ savedAt' = scenario
    /\ UNCHANGED <<laneId, service, weightKg, holidayPeak, weather, congestion,
                   sensorCoverage, emissionFactors, riskGrid, isPainting, slaTarget,
                   intervened, interventionDelta, volPerWeek, penaltyPerLate, steps,
                   before>>

\* The setters of loadScenario for the parsed object s.
applyLoaded(s) ==
    /\ laneId' = IF IsNullish(s.laneId) THEN laneId ELSE s.laneId
    /\ service' = IF IsNullish(s.service) THEN service ELSE s.service
    /\ weightKg' = IF IsNumber(s.weightKg) THEN s.weightKg ELSE weightKg
    /\ holidayPeak' = Truthy(s.holidayPeak)
    /\ weather' = IF IsNumber(s.weather) THEN s.weather ELSE weather
    /\ congestion' = IF IsNumber(s.congestion) THEN s.congestion ELSE congestion
    /\ sensorCoverage' = IF IsNumber(s.sensorCoverage) THEN s.sensorCoverage
                         ELSE sensorCoverage
    /\ emissionFactors' = IF IsNullish(s.emissionFactors) THEN emissionFactors
                          ELSE s.emissionFactors
    /\ slaTarget' = IF IsNumber(s.slaTarget) THEN s.slaTarget ELSE slaTarget
    /\ riskGrid' = IF s.riskGrid.k = "arr" THEN s.riskGrid.a ELSE riskGrid

\* Mutant of loadScenario: a missing or unparseable item is read as "{}".
loadScenarioDefaulting ==
    /\ Mounted
    /\ applyLoaded(IF storage.k = "json" THEN storage.v ELSE EmptyDoc)
    /\ before' = NoRecord
    /\ UNCHANGED <<isPainting, intervened, interventionDelta, volPerWeek,
                   penaltyPerLate, storage, savedAt, steps>>
loadScenario ==
    /\ Mounted
    /\ IF storage.k = "json"
       THEN applyLoaded(storage.v) /\ before' = NoRecord
       ELSE UNCHANGED scenario /\ UNCHANGED before
    /\ UNCHANGED <<isPainting, intervened, interventionDelta, volPerWeek,
                   penaltyPerLate, storage, savedAt, steps>>

Next ==
    \/ \E v \in LaneIds : SelectLane(v)
    \/ \E key \in ServiceKeys : SelectService(key)
    \/ \E v \in WeightInputs : SlideWeight(v)
    \/ SwitchPeak
    \/ \E v \in PercentInputs : SlideWeather(v)
    \/ \E v \in PercentInputs : SlideCongestion(v)
    \/ \E v \in PercentInputs : SlideSensorCoverage(v)
    \/ \E key \in ServiceKeys, v \in FactorInputs : EditEmissionFactor(key, v)
    \/ \E v \in SlaInputs : SlideSlaTarget(v)
    \/ \E v \in VolumeInputs : EditVolPerWeek(v)
    \/ \E v \in PenaltyInputs : EditPenaltyPerLate(v)
    \/ \E cell \in PointerCells : CellMouseDown(cell[1], cell[2])
    \/ \E cell \in PointerCells : CellMouseEnter(cell[1], cell[2])
    \/ HeatmapMouseUp
    \/ HeatmapMouseLeave
    \/ \E i \in DOMAIN PRESETS : applyPreset(PRESETS[i].id)
    \/ resetAll
    \/ \E random \in RandomDraws : Intervene(random)
    \/ saveScenario
    \/ loadScenario

Spec == Init /\ [][Next]_vars

----------------------------------------------------------------------------
(* Vocabulary of the properties *)

\* x is a number of [0, 1].
InUnit(x) == IsFinite(x) /\ 0 <= x.v /\ x.v <= SCALE
\* x is a number of [0, 100].
InPercent(x) == IsFinite(x) /\ 0 <= x.v /\ x.v <= 100 * SCALE

CellsInRange(g) == \A r \in DOMAIN g : \A c \in DOMAIN g[r] : g[r][c] \in {0, 1, 2}
NoEmptyRow(g) == Len(g) > 0 /\ \A r \in DOMAIN g : Len(g[r]) > 0
GridShape(g) == Len(g) = ROWS /\ \A r \in DOMAIN g : Len(g[r]) = COLS

\* The inputs are in their valid ranges.
ValidInputs ==
    /\ laneId \in {JStr(id) : id \in LaneIds}
    /\ service \in {JStr(key) : key \in ServiceKeys}
    /\ InPercent(weather)
    /\ InPercent(congestion)
    /\ InPercent(sensorCoverage)
    /\ GridShape(riskGrid)
    /\ CellsInRange(riskGrid)
    \* an active intervention carries a risk cut that is a fraction: the
    \* button stores suggestion.riskCut, which is NaN when it was clicked
    \* while a loaded snapshot held non-finite numbers
    /\ intervened => InUnit(interventionDelta.risk)

\* C1: with the inputs in their valid ranges the on-time probability of the
\* prediction bundle is a number of [0, 1].
C1_OnTimeProbInUnit == ValidInputs => InUnit(onTimeProb)
\* C1 case: valid inputs, an active intervention, a probability strictly inside.
C1_Witness ==
    /\ ValidInputs
    /\ intervened
    /\ InUnit(onTimeProb)
    /\ 0 < onTimeProb.v
    /\ onTimeProb.v < SCALE

\* C2: with the inputs in their valid ranges p90Days >= p50Days.
C2_P90AtLeastP50 == ValidInputs => Le(p50Days, p90Days)
\* C2 case: peak on and risk present, so both added terms are positive.
C2_Witness ==
    /\ ValidInputs
    /\ holidayPeak
    /\ service # JStr("ground")
    /\ Lt(Fin(0), effectiveRisk)
    /\ Lt(p50Days, p90Days)

\* C3: the risk grid always has 6 rows of 10 cells, each cell 0, 1 or 2.
C3_GridWellFormed == GridShape(riskGrid) /\ CellsInRange(riskGrid)

\* A snapshot property is well formed when it has the type of its state cell.
WellFormedDoc(s) ==
    [laneId |-> s.laneId.k = "str",
     service |-> s.service.k = "str",
     weightKg |-> IsNumber(s.weightKg),
     holidayPeak |-> s.holidayPeak.k = "bool",
     weather |-> IsNumber(s.weather),
     congestion |-> IsNumber(s.congestion),
     sensorCoverage |-> IsNumber(s.sensorCoverage),
     emissionFactors |-> s.emissionFactors.k = "obj",
     slaTarget |-> IsNumber(s.slaTarget),
     riskGrid |-> s.riskGrid.k = "arr"]
\* The state cell of each snapshot property, and the value a document gives it.
cellOf ==
    [laneId |-> laneId, service |-> service, weightKg |-> weightKg,
     holidayPeak |-> JBool(holidayPeak), weather |-> weather,
     congestion |-> congestion, sensorCoverage |-> sensorCoverage,
     emissionFactors |-> emissionFactors, slaTarget |-> slaTarget,
     riskGrid |-> JArr(riskGrid)]

\* C4: a load of a document that parses leaves the cell of every missing or
\* wrongly typed property as it was and applies every well-formed property.
C4_LoadFallsBackPerField ==
    [][(storage.k = "json" /\ loadScenario) =>
          \A f \in DOMAIN EmptyDoc :
              cellOf'[f] = IF WellFormedDoc(storage.v)[f] THEN storage.v[f] ELSE cellOf[f]]_vars

\* C5: in every reachable state the prediction recomputes without a fault: the
\* lane resolves, the service is one of the three, the grid is non-empty and
\* the derived outputs are finite numbers.
C5_PredictionNeverFaults ==
    /\ ~PredictionThrows
    /\ service \in {JStr(key) : key \in ServiceKeys}
    /\ NoEmptyRow(riskGrid)
    /\ IsFinite(effectiveRisk)
    /\ IsFinite(p50Days)
    /\ IsFinite(p90Days)
    /\ IsFinite(onTimeProb)
    /\ IsFinite(emissionsKg)

\* C6: a load of the scenario written by saveScenario restores every saved
\* cell to its value at save time, whatever happened in between.
C6_SaveLoadRoundTrip ==
    [][(savedAt # NoSave /\ loadScenario) => scenario' = savedAt]_vars

\* C7: a load with no stored item, or with an item that does not parse,
\* changes no state variable and leaves the component mounted.
C7_LoadWithoutSnapshotIsNoOp ==
    [][(storage.k # "json" /\ loadScenario) => (UNCHANGED vars /\ Mounted')]_vars
\* C7 case: nothing loadable is stored and the state is no longer the default
\* one, so a load that reset or defaulted any cell would show.
C7_Witness ==
    /\ storage \in {NoItem, Unparseable}
    /\ Mounted
    /\ holidayPeak
    /\ weightKg # Num(2)

\* C8: effectiveRisk is a number of [0, 1] for any numeric weather, congestion
\* and sensor coverage (here with a well-formed grid).
C8_EffectiveRiskInUnit ==
    (/\ IsNumber(weather)
     /\ IsNumber(congestion)
     /\ IsNumber(sensorCoverage)
     /\ GridShape(riskGrid)
     /\ CellsInRange(riskGrid)) => InUnit(effectiveRisk)

\* C9: emissionsKg is a number >= 0 in every reachable state, also after a
\* load that supplies any numeric weight and emission factors.
C9_EmissionsNonNegative ==
    (/\ ~PredictionThrows
     /\ IsNumber(weightKg)
     /\ IsNumber(Prop(emissionFactors, service))) => Le(Fin(0), emissionsKg)

\* The mean of the per-row risks weighted by row length.
RECURSIVE SumNums(_)
SumNums(s) == IF s = <<>> THEN Fin(0) ELSE Add(Head(s), SumNums(Tail(s)))
weightedRowMean(g) ==
    Div(SumNums([r \in DOMAIN g |-> Mul(Num(Len(g[r])), rowRisk(g)[r])]),
        Num(Len(flat(g))))
\* Equal up to one unit of the last place of the modelled doubles.
Close(a, b) == IsFinite(a) /\ IsFinite(b) /\ Abs(a.v - b.v) <= 1

C11_ThreeClicksRestore ==
    \A r \in DOMAIN riskGrid : \A c \in DOMAIN riskGrid[r] :
        toggleCell(toggleCell(toggleCell(riskGrid, r, c), r, c), r, c) = riskGrid

\* C12: a drag-paint step on a cell sets it to min(2, cell + 1): the cell is
\* never lowered, never above 2 afterwards, and a cell at 2 stays at 2.
C12_PaintSaturates ==
    [][\A cell \in PointerCells :
          (isPainting /\ CellMouseEnter(cell[1], cell[2])) =>
              LET old == riskGrid[cell[1]][cell[2]]
                  new == riskGrid'[cell[1]][cell[2]]
              IN  /\ new = (IF old + 1 < 2 THEN old + 1 ELSE 2)
                  /\ new >= old
                  /\ new <= 2
                  /\ (old = 2 => new = 2)]_vars

riskWithoutCut ==
    clamp01(Mul(Add(Mul(Dec(5, 10), baseRisk), Mul(Dec(5, 10), networkRisk)),
                Sub(Num(1), Mul(Dec(35, 100), Div(sensorCoverage, Num(100))))))

\* C14: after a preset application or a full reset the intervention is
\* inactive with the pair (0, 0), and the prediction that follows uses no
\* risk cut, no reduction of the transit stretch and no distance penalty.
C14_PresetAndResetClearIntervention ==
    /\ [][((\E i \in DOMAIN PRESETS : applyPreset(PRESETS[i].id)) \/ resetAll) =>
             /\ ~intervened'
             /\ interventionDelta' = [risk |-> Fin(0), distancePct |-> Fin(0)]]_vars
    /\ []((Mounted /\ ~intervened) =>
             /\ effectiveRisk = riskWithoutCut
             /\ stretch = Add(Num(1), Mul(Dec(3, 10), riskWithoutCut))
             /\ dist = lane.distanceKm)
\* C14 case: the storm preset has been applied as the second event and left a
\* risk above the suggestion threshold with the intervention inactive.
C14_Witness ==
    /\ steps = 2
    /\ weather = Num(80)
    /\ congestion = Num(65)
    /\ sensorCoverage = Num(35)
    /\ ~intervened
    /\ interventionDelta = [risk |-> Fin(0), distancePct |-> Fin(0)]
    /\ Lt(threshold, effectiveRisk)

\* C15: the service mix has exactly 3 rows, one for each of ground, twoDay
\* and overnight, none repeated, whichever service is selected and whatever
\* the other inputs are (in every state whose render computes a prediction).
C15_ServiceMixHasThreeRows ==
    Mounted =>
        LET mix == serviceMix
        IN  /\ Len(mix) = 3
            /\ {mix[i].key : i \in DOMAIN mix} = {"ground", "twoDay", "overnight"}
            /\ \A i, j \in DOMAIN mix : mix[i].key = mix[j].key => i = j
\* C15 case: a service other than the default is selected on another lane.
C15_Witness ==
    /\ Mounted
    /\ service = JStr("twoDay")
    /\ laneId # JStr(LANES[1].id)
    /\ LET mix == serviceMix IN Len(mix) = 3 /\ mix[2].key = "twoDay"

\* C16: for weather and congestion in 0..100 and a grid of cells in {0,1,2},
\* not all three of weather, congestion and grid risk being zero, the three
\* driver shares are each >= 0 and sum to a value within 0.01 of 1.
C16_DriverSharesSumToOne ==
    (/\ InPercent(weather)
     /\ InPercent(congestion)
     /\ GridShape(riskGrid)
     /\ CellsInRange(riskGrid)
     /\ ~(weather = Fin(0) /\ congestion = Fin(0) /\ networkRisk = Fin(0))) =>
        LET d == drivers
            driverSum == Add(Add(d[1].v, d[2].v), d[3].v)
        IN  /\ \A i \in DOMAIN d : Le(Fin(0), d[i].v)
            /\ Le(Dec(99, 100), driverSum)
            /\ Le(driverSum, Dec(101, 100))

\* C17: upsellShare is a number of [0, 1] in every reachable state (whose
\* render computes it), also when the best alternative's OTP equals or is
\* below the current on-time probability.
C17_UpsellShareInUnit == Mounted => InUnit(upsellShare)

\* C18: the SLA breach label is "Elevated" exactly when onTimeProb is below
\* slaTarget / 100 and "Low" otherwise, equality included; it is a function
\* of the current onTimeProb and target alone.
C18_SlaLabelIsTwoBranchClassifier ==
    /\ getSlaBreachLabel(Dec(80, 100), Num(90)) = "Elevated"
    /\ getSlaBreachLabel(Dec(97, 100), Num(95)) = "Low"
    /\ getSlaBreachLabel(Dec(90, 100), Num(90)) = "Low"
    /\ Mounted =>
          LET otp == onTimeProb
              label == getSlaBreachLabel(otp, slaTarget)
          IN  /\ label \in {"Elevated", "Low"}
              /\ (IsFinite(otp) /\ IsFinite(slaTarget)) =>
                    (label = "Elevated" <=> otp.v * 100 < slaTarget.v)
              /\ (otp = NaN \/ slaTarget = NaN) => label = "Low"
\* C18 case: the target slider is at its minimum and the probability is
\* below it, so the label is "Elevated" with a non-default target.
C18_Witness ==
    /\ Mounted
    /\ slaTarget = Num(80)
    /\ LET otp == onTimeProb
       IN  /\ IsFinite(otp)
           /\ otp.v * 100 < slaTarget.v
           /\ getSlaBreachLabel(otp, slaTarget) = "Elevated"

\* (weightKg / 1000) x lane distance x (1 + distance penalty when the
\* intervention is active) x the emission factor of service class k.
emissionsProduct(k) ==
    Mul(Mul(Mul(Div(weightKg, Num(1000)), lane.distanceKm),
            Add(Num(1), IF intervened THEN interventionDelta.distancePct ELSE Fin(0))),
        Prop(emissionFactors, JStr(k)))

\* C19: emissionsKg equals (weightKg / 1000) x lane distance x (1 + distance
\* penalty when the intervention is active, else 1) x the selected service's
\* emission factor, so it is 0 when the weight is 0; each service-mix row k
\* carries the same product with the factor of k, and the row of the selected
\* service equals emissionsKg.  (For a selected class of the three and finite
\* weight and factors; products agree up to one unit of rounding.)
C19_EmissionsFormula ==
    (/\ Mounted
     /\ service \in {JStr(key) : key \in ServiceKeys}
     /\ IsFinite(weightKg)
     /\ \A key \in ServiceKeys : IsFinite(Prop(emissionFactors, JStr(key)))) =>
        LET mix == serviceMix
            e == emissionsKg
        IN  /\ Close(e, emissionsProduct(service.s))
            /\ weightKg = Fin(0) => e = Fin(0)
            /\ \A i \in DOMAIN mix :
                  /\ Close(mix[i].co2kg, emissionsProduct(mix[i].key))
                  /\ JStr(mix[i].key) = service => mix[i].co2kg = e
\* C19 case: the intervention is active with its distance penalty, the weight
\* has been moved off its default and the emissions are positive.
C19_Witness ==
    /\ Mounted
    /\ service \in {JStr(key) : key \in ServiceKeys}
    /\ \A key \in ServiceKeys : IsFinite(Prop(emissionFactors, JStr(key)))
    /\ intervened
    /\ Lt(Fin(0), interventionDelta.distancePct)
    /\ weightKg = Num(40)
    /\ Lt(Fin(0), emissionsKg)

\* C20: with no intervention active, p50Days equals the lane's base transit
\* days of the selected service when effectiveRisk is 0, and p90Days equals
\* p50Days exactly when effectiveRisk is 0 and the peak flag is off; in
\* general p90Days - p50Days = 0.8 x effectiveRisk + (0.5 if peak).
C20_ZeroRiskPercentiles ==
    (/\ Mounted
     /\ service \in {JStr(key) : key \in ServiceKeys}
     /\ ~intervened
     /\ IsFinite(effectiveRisk)) =>
        LET risk == effectiveRisk
            p50 == p50Days
            p90 == p90Days
        IN  /\ risk = Fin(0) => p50 = lane.baseTransitDays[service.s]
            /\ p90 = p50 <=> (risk = Fin(0) /\ ~holidayPeak)
            /\ Sub(p90, p50) =
                  Add(Mul(Dec(8, 10), risk), IF holidayPeak THEN Dec(5, 10) ELSE Fin(0))
\* C20 case: weather and congestion are at 0 over an all-clear grid with peak
\* off and no intervention, and the two percentiles coincide at the base days.
C20_Witness ==
    /\ Mounted
    /\ service \in {JStr(key) : key \in ServiceKeys}
    /\ ~intervened
    /\ ~holidayPeak
    /\ weather = Fin(0)
    /\ congestion = Fin(0)
    /\ networkRisk = Fin(0)
    /\ effectiveRisk = Fin(0)
    /\ p50Days = lane.baseTransitDays[service.s]
    /\ p90Days = p50Days

\* C21: the best alternative is a row of the service mix for a service other
\* than the selected one, no non-selected row has a higher OTP, and with one
\* of the three services selected there are two non-selected rows.
C21_BestAltIsHighestOtpAlternative ==
    Mounted =>
        LET mix == serviceMix
            best == bestAlt
        IN  /\ best # Undef
            /\ JStr(best.key) # service
            /\ \E i \in DOMAIN mix : mix[i] = best
            /\ service \in {JStr(key) : key \in ServiceKeys} =>
                  Cardinality({i \in DOMAIN mix : JStr(mix[i].key) # service}) = 2
            /\ \A i \in DOMAIN mix :
                  JStr(mix[i].key) # service => ~Lt(best.otp, mix[i].otp)
\* C21 case: ground is selected and the later of the two alternatives,
\* overnight, has the strictly higher OTP.
C21_Witness ==
    /\ Mounted
    /\ service = JStr("ground")
    /\ IsFinite(effectiveRisk)
    /\ LET mix == serviceMix
           best == bestAlt
       IN  /\ best.key = "overnight"
           /\ Lt(mix[2].otp, best.otp)


\* C22: with weather, congestion, peak, grid and intervention state fixed,
\* raising the sensor coverage within 0..100 never raises effectiveRisk and
\* never lowers onTimeProb.  The state after a move of the coverage slider is
\* compared with the render values the slider started from.
C22_CoverageNeverRaisesRisk ==
    (/\ before.op = "SlideSensorCoverage"
     /\ InPercent(before.sensorCoverage)
     /\ InPercent(sensorCoverage)
     /\ before.sensorCoverage.v <= sensorCoverage.v) =>
        /\ ~Lt(before.effectiveRisk, effectiveRisk)
        /\ ~Lt(onTimeProb, before.onTimeProb)

\* C22 witness: the coverage slider was raised within 0..100 and the risk
\* fell strictly while the on-time probability rose strictly.
C22_Witness ==
    /\ before.op = "SlideSensorCoverage"
    /\ InPercent(before.sensorCoverage)
    /\ InPercent(sensorCoverage)
    /\ before.sensorCoverage.v < sensorCoverage.v
    /\ Lt(effectiveRisk, before.effectiveRisk)
    /\ Lt(before.onTimeProb, onTimeProb)

\* C23 as stated: the samples start at day mean - 3 sigma and advance by
\* max(0.15, (end - start) / 48) up to end = max(mean + 3 sigma, P90 + 1), with
\* mean = P50 and sigma = max(0.25, (P90 - P50) / 1.28); the sequence is
\* non-empty and ordered by strictly increasing day.
C23_SamplesFromMeanMinus3SigmaByRangeStep ==
    Mounted =>
        LET data == etaDensityData
            mean == p50Days
            p90 == p90Days
            sigma == MathMax(Dec(25, 100), Div(Sub(p90, mean), Dec(128, 100)))
            start == Sub(mean, Mul(Num(3), sigma))
            end == MathMax(Add(mean, Mul(Num(3), sigma)), Add(p90, Num(1)))
            step == MathMax(Dec(15, 100), Div(Sub(end, start), Num(48)))
        IN  /\ Len(data) > 0
            /\ \A i \in DOMAIN data :
                  /\ data[i].d = round1(Add(start, Mul(Num(i - 1), step)))
                  /\ Le(Add(start, Mul(Num(i - 1), step)), end)
            /\ Lt(end, Add(start, Mul(Num(Len(data)), step)))
            /\ \A i, j \in DOMAIN data : i < j => Lt(data[i].d, data[j].d)

\* C23 amended: the samples start at day max(0.3, mean - 3 sigma) and advance
\* by max(0.15, end / 48) up to end = max(mean + 3 sigma, P90 + 1), with
\* mean = P50 and sigma = max(0.25, (P90 - P50) / 1.28), each day rounded to
\* one decimal; the sequence is ordered by strictly increasing day, non-empty
\* when P50 and P90 are numbers and empty when one of them is NaN.
C23_SamplesFromClampedStartByEndStep ==
    Mounted =>
        LET data == etaDensityData
            mean == p50Days
            p90 == p90Days
            sigma == MathMax(Dec(25, 100), Div(Sub(p90, mean), Dec(128, 100)))
            start == MathMax(Dec(3, 10), Sub(mean, Mul(Num(3), sigma)))
            end == MathMax(Add(mean, Mul(Num(3), sigma)), Add(p90, Num(1)))
            step == MathMax(Dec(15, 100), Div(end, Num(48)))
        IN  /\ (IsFinite(mean) /\ IsFinite(p90)) <=> Len(data) > 0
            /\ \A i \in DOMAIN data :
                  /\ data[i].d = round1(Add(start, Mul(Num(i - 1), step)))
                  /\ Le(Add(start, Mul(Num(i - 1), step)), end)
            /\ Len(data) > 0 => Lt(end, Add(start, Mul(Num(Len(data)), step)))
            /\ \A i, j \in DOMAIN data : i < j => Lt(data[i].d, data[j].d)

\* C23 witness: mean - 3 sigma is below 0.3, the samples start at day 0.3 and
\* advance by end / 48 rounded to one decimal up to the end.
C23_Witness ==
    /\ Mounted
    /\ LET data == etaDensityData
           mean == p50Days
           p90 == p90Days
           sigma == MathMax(Dec(25, 100), Div(Sub(p90, mean), Dec(128, 100)))
           end == MathMax(Add(mean, Mul(Num(3), sigma)), Add(p90, Num(1)))
       IN  /\ IsFinite(mean)
           /\ Lt(Sub(mean, Mul(Num(3), sigma)), Dec(3, 10))
           /\ Len(data) > 20
           /\ data[1].d = Dec(3, 10)
           /\ Lt(Sub(end, Dec(15, 100)), data[Len(data)].d)

\* C24: a pointer move onto a cell changes the grid only while paint mode is
\* on, and with paint mode off it leaves the grid unchanged; paint mode is
\* turned on only by a button press on a cell and turned off only by a
\* release over, or a leave of, the heatmap, each of which leaves it off.
C24_HoverPaintsOnlyInPaintMode ==
    /\ [][(\E cell \in PointerCells : CellMouseEnter(cell[1], cell[2])) =>
             /\ riskGrid' # riskGrid => isPainting
             /\ ~isPainting => riskGrid' = riskGrid
             /\ isPainting' = isPainting]_vars
    /\ [][(~isPainting /\ isPainting') =>
             \E cell \in PointerCells : CellMouseDown(cell[1], cell[2])]_vars
    /\ [][(isPainting /\ ~isPainting') => (HeatmapMouseUp \/ HeatmapMouseLeave)]_vars
    /\ [][(HeatmapMouseUp \/ HeatmapMouseLeave) => ~isPainting']_vars
    /\ [][(\E cell \in PointerCells : CellMouseDown(cell[1], cell[2])) => isPainting']_vars

\* C24 witness: the pointer moved onto a cell of risk below 2 with paint mode
\* off, after an earlier event, and the grid is as it was.
C24_Witness ==
    /\ before.op = "CellMouseEnter"
    /\ ~before.isPainting
    /\ steps = 2
    /\ \E cell \in PointerCells :
          /\ cell[1] \in DOMAIN riskGrid
          /\ cell[2] \in DOMAIN riskGrid[cell[1]]
          /\ riskGrid[cell[1]][cell[2]] < 2
    /\ riskGrid = before.riskGrid

\* C25: from any reachable state a full reset sets lane, service, weight, peak,
\* weather, congestion, sensor coverage, emission factors, SLA target, weekly
\* volume and penalty per late package to their defaults: the first lane,
\* ground, 2.0, off, 35, 25, 40, the default factors, 95, 2000 and 2.
C25_ResetRestoresDefaults ==
    [][resetAll =>
         /\ laneId' = JStr(LANES[1].id)
         /\ service' = JStr("ground")
         /\ weightKg' = Dec(20, 10)
         /\ holidayPeak' = FALSE
         /\ weather' = Num(35)
         /\ congestion' = Num(25)
         /\ sensorCoverage' = Num(40)
         /\ emissionFactors' = DEFAULT_EMISSION_FACTORS
         /\ slaTarget' = Num(95)
         /\ volPerWeek' = Num(2000)
         /\ penaltyPerLate' = Num(2)]_vars

\* C25 witness: a reset ran in a state whose sensor coverage and risk were not
\* the defaults' and left the inputs at their defaults.
C25_Witness ==
    /\ before.op = "resetAll"
    /\ before.sensorCoverage # Num(40)
    /\ before.effectiveRisk # effectiveRisk
    /\ laneId = JStr(LANES[1].id)
    /\ service = JStr("ground")
    /\ sensorCoverage = Num(40)
    /\ slaTarget = Num(95)
    /\ volPerWeek = Num(2000)
    /\ penaltyPerLate = Num(2)

\* C26: the intervention is activated only in a state where effectiveRisk is
\* above 0.42 and no intervention is active; once it is active it cannot be
\* activated again, and its risk cut and distance penalty stay as they are
\* through every step that is not a preset application or a full reset.
C26_InterventionOnlyAboveThresholdThenFrozen ==
    /\ [][(\E random \in RandomDraws : Intervene(random)) =>
             /\ Lt(threshold, effectiveRisk)
             /\ ~intervened]_vars
    /\ [][intervened => ~(\E random \in RandomDraws : Intervene(random))]_vars
    /\ [][(/\ intervened
            /\ ~(\E i \in DOMAIN PRESETS : applyPreset(PRESETS[i].id))
            /\ ~resetAll) =>
             /\ intervened'
             /\ interventionDelta' = interventionDelta]_vars

\* C27: in every reachable state an inactive intervention has the pair
\* (risk cut, distance penalty) = (0, 0), and an active one has its risk cut
\* in [0.35, 0.55] and its distance penalty in [0.05, 0.12].
C27_InterventionPairInBounds ==
    /\ ~intervened => interventionDelta = [risk |-> Fin(0), distancePct |-> Fin(0)]
    /\ intervened =>
          /\ Le(Dec(35, 100), interventionDelta.risk)
          /\ Le(interventionDelta.risk, Dec(55, 100))
          /\ Le(Dec(5, 100), interventionDelta.distancePct)
          /\ Le(interventionDelta.distancePct, Dec(12, 100))

\* C28: activating the intervention, with all other inputs unchanged, replaces
\* effectiveRisk r by clamp01(r * (1 - riskCut)), which is strictly lower than
\* r, and the resulting onTimeProb is not lower than before the activation.
C28_InterventionLowersRisk ==
    before.op = "Intervene" =>
        /\ effectiveRisk = clamp01(Mul(before.effectiveRisk,
                                       Sub(Num(1), interventionDelta.risk)))
        /\ Lt(effectiveRisk, before.effectiveRisk)
        /\ ~Lt(onTimeProb, before.onTimeProb)

\* C29: in every state reachable with valid inputs the service-mix OTP of the
\* best alternative is not lower than the on-time probability of the selected
\* service.
C29_BestAltNotBelowSelected ==
    (Mounted /\ ValidInputs) =>
        LET best == bestAlt
        IN  /\ best # Undef
            /\ Le(onTimeProb, best.otp)

\* C29 witness: valid inputs, overnight selected with an active intervention,
\* an on-time probability above 0 and a best alternative strictly above it.
C29_Witness ==
    /\ Mounted
    /\ ValidInputs
    /\ service = JStr("overnight")
    /\ intervened
    /\ LET best == bestAlt
           otp == onTimeProb
       IN  /\ Lt(Fin(0), otp)
           /\ Lt(otp, best.otp)
           /\ Lt(best.otp, Num(1))

\* C30: whenever the SLA breach label is "Low" the SLA gap in points, the late
\* fraction, the weekly penalty exposure and the upsell share are all 0; and
\* whenever the gap in points or the exposure is positive, with a non-negative
\* volume and penalty, the label is "Elevated".
C30_LowLabelMeansNoGap ==
    Mounted =>
        LET label == slaBreachLabel
            gap == slaGapPts
            late == latePct
            exposure == exposureUSD
            share == upsellShare
        IN  /\ label = "Low" =>
                  /\ gap = Fin(0)
                  /\ late = Fin(0)
                  /\ exposure = Fin(0)
                  /\ share = Fin(0)
            /\ (/\ Lt(Fin(0), gap) \/ Lt(Fin(0), exposure)
                /\ Le(Fin(0), volPerWeek)
                /\ Le(Fin(0), penaltyPerLate)) => label = "Elevated"

=============================================================================
